---- MODULE Spec2Model ----
(***************************************************************************)
(* Model of s28346_2025-2.py: the NCBIRetriever class (search_taxid,       *)
(* fetch_records, filter_records, generate_csv, plot_lengths) and main().  *)
(*                                                                         *)
(* Two ways of driving the class are modelled:                             *)
(*   Spec     one run of main(), statement by statement (pc);              *)
(*   ApiSpec  a constructed retriever whose methods a caller invokes in    *)
(*            any order, each on the values the previous calls returned.   *)
(* The external collaborators (Entrez, SeqIO, pandas, matplotlib, the file *)
(* system) are modelled by what the calls in the source ask of them.       *)
(***************************************************************************)
EXTENDS Integers, Sequences, FiniteSets, TLC

(* ------------------------------ bounds -------------------------------- *)
\* longest enumerated provider result set
MaxLen == 3
\* a result set smaller than the fetch cap, and one larger than it
SmallTotal == 42
BigTotal == 1001
\* ApiSpec: number of method calls, number of searches
MaxCalls == 6
MaxSearches == 2

(* ------------------------- program constants -------------------------- *)
\* main: min(1000, total)
MaxRecords == 1000
\* Entrez.efetch(retstart=0, ...)
RetStart == 0

None == "None"
CsvDefault == "records.csv"
PngDefault == "length_chart.png"
CsvOther == "out.csv"
Files == {CsvDefault, PngDefault, CsvOther}

Min(a, b) == IF a <= b THEN a ELSE b

(* ------------------------- sequence records --------------------------- *)
\* a parsed GenBank record: rec.id, len(rec.seq), rec.description
Rec(id, len, desc) == [id |-> id, len |-> len, desc |-> desc]

Pool ==
  { Rec("A", 100, "alpha"), Rec("B", 250, "beta"), Rec("C", 500, "gamma"),
    Rec("D", 750, "delta"), Rec("E", 250, "beta") }

SeqsUpTo(S, n) == UNION { [1..k -> S] : k \in 0..n }

\* lengths 100, 250, 500, 750 in this order
Scenario == << Rec("A", 100, "alpha"), Rec("B", 250, "beta"),
               Rec("C", 500, "gamma"), Rec("D", 750, "delta") >>

\* n records of pairwise different lengths 100, 200, ...
Bulk(n) == [i \in 1..n |-> Rec(ToString(i), 100 * i, "bulk")]

\* what the provider may hold for a query
ResultSets == SeqsUpTo(Pool, MaxLen) \cup {Scenario, Bulk(SmallTotal), Bulk(BigTotal)}

\* what the provider may hold for the queries of ApiSpec
ApiResultSets ==
  { <<>>, << Rec("B", 250, "beta") >>, << Rec("C", 500, "gamma"), Rec("B", 250, "beta") >> }

(* ----------------------------- int(...) ------------------------------- *)
DigitChars == <<"0", "1", "2", "3", "4", "5", "6", "7", "8", "9">>
IsDigit(c) == \E d \in 1..10 : DigitChars[d] = c
DigitVal(c) == (CHOOSE d \in 1..10 : DigitChars[d] = c) - 1

RECURSIVE DigitsValue(_)
DigitsValue(s) ==
  IF s = <<>> THEN 0
  ELSE 10 * DigitsValue(SubSeq(s, 1, Len(s) - 1)) + DigitVal(s[Len(s)])

\* the text is a sequence of characters; an optional sign, then digits
Unsigned(s) == IF s # <<>> /\ s[1] \in {"-", "+"} THEN Tail(s) ELSE s
IsInt(s) == Unsigned(s) # <<>> /\ \A i \in 1..Len(Unsigned(s)) : IsDigit(Unsigned(s)[i])
ParseInt(s) ==
  IF s # <<>> /\ s[1] = "-" THEN 0 - DigitsValue(Unsigned(s)) ELSE DigitsValue(Unsigned(s))

RECURSIVE Digits(_)
Digits(n) == IF n < 10 THEN <<DigitChars[n + 1]>>
             ELSE Append(Digits(n \div 10), DigitChars[(n % 10) + 1])

\* what the user may type at the two length prompts
NumInputs == { <<"2", "0", "0">>, <<"6", "0", "0">>, <<"2", "5", "0">>, <<"-", "5">>, <<"a", "b">> }
Taxids == {"9606", "562"}
Email == "user@example.org"
ApiKey == "k3y"

(* ------------------------------ state --------------------------------- *)
VARIABLES
  pc,            \* main's position, or "api" when a caller drives the object
  stdin,         \* what the user types: [taxid, min_len, max_len]
  entrez,        \* Entrez.email, Entrez.api_key (process-wide)
  webenv,        \* self.webenv
  query_key,     \* self.query_key
  min_len,       \* main's locals (0 / <<>> until assigned)
  max_len,
  total,
  all_records,
  filtered,
  df,
  fs,            \* the files: name -> [exists, data]
  history,       \* the provider's history server: one entry per esearch
  last_efetch,   \* the parameters of the most recent efetch request
  ncalls,        \* how many methods of the retriever have been invoked
  last_call,     \* the method invoked last: [method, file]
  prev_call,     \* the method invoked before it
  written,       \* the files written so far
  error          \* the uncaught exception: [stage, kind], or NoError

vars == << pc, stdin, entrez, webenv, query_key, min_len, max_len, total,
           all_records, filtered, df, fs, history, last_efetch, ncalls, last_call,
           prev_call, written, error >>

NoCall == [method |-> None, file |-> None]
NoError == [stage |-> None, kind |-> None]
NoRequest == [retstart |-> 0 - 1, retmax |-> 0 - 1, webenv |-> None, query_key |-> None]
NoFile == [exists |-> FALSE, data |-> <<>>]
EmptyFrame == [columns |-> <<>>, rows |-> <<>>]

(* ------------------------------ Entrez -------------------------------- *)
\* f"txid{taxid}[Organism]"
Term(taxid) == "txid" \o taxid \o "[Organism]"

\* Entrez.read(Entrez.esearch(..., usehistory="y")) for a query matching rs
Esearch(term, rs) ==
  [ WebEnv |-> "MCID_" \o ToString(Len(history) + 1),
    QueryKey |-> "1",
    Count |-> Digits(Len(rs)),
    term |-> term,
    records |-> rs ]

\* the history entry a pair of tokens names
Stored(we, qk) == { h \in 1..Len(history) : history[h].WebEnv = we /\ history[h].QueryKey = qk }

\* list(SeqIO.parse(Entrez.efetch(...))) : retmax records from offset retstart
Efetch(req) ==
  LET rs == history[CHOOSE h \in Stored(req.webenv, req.query_key) : TRUE].records
  IN SubSeq(rs, req.retstart + 1, Min(Len(rs), req.retstart + req.retmax))

(* ----------------------------- methods -------------------------------- *)
\* NCBIRetriever.__init__
Construct(email, api_key) ==
  /\ entrez' = [email |-> email, api_key |-> api_key]
  /\ webenv' = None
  /\ query_key' = None

\* search_taxid that keeps the tokens it already holds
search_taxid_first(taxid, rs) ==
  LET result == Esearch(Term(taxid), rs) IN
  /\ history' = Append(history, result)
  /\ webenv' = IF webenv = None THEN result.WebEnv ELSE webenv
  /\ query_key' = IF query_key = None THEN result.QueryKey ELSE query_key
  /\ total' = ParseInt(result.Count)

\* search_taxid, the provider answering with rs; the caller keeps the count in total
search_taxid(taxid, rs) ==
  LET result == Esearch(Term(taxid), rs) IN
  /\ history' = Append(history, result)
  /\ webenv' = result.WebEnv
  /\ query_key' = result.QueryKey
  /\ total' = ParseInt(result.Count)

\* the efetch request fetch_records builds
FetchRequest(max_records) ==
  [retstart |-> RetStart, retmax |-> max_records, webenv |-> webenv, query_key |-> query_key]

\* the provider rejects a request whose tokens name no stored result set
FetchAccepted(req) == Stored(req.webenv, req.query_key) # {}

\* fetch_records; the caller keeps the list in all_records
fetch_records(max_records) ==
  /\ last_efetch' = FetchRequest(max_records)
  /\ all_records' = Efetch(FetchRequest(max_records))

\* filter_records that puts the bounds in order first
filter_records_normalised(records, lo, hi) ==
  SelectSeq(records, LAMBDA rec : Min(lo, hi) <= rec.len /\ rec.len <= (IF lo <= hi THEN hi ELSE lo))

\* filter_records with the upper bound excluded
filter_records_exclusive(records, lo, hi) ==
  SelectSeq(records, LAMBDA rec : lo <= rec.len /\ rec.len < hi)

\* filter_records
filter_records(records, lo, hi) ==
  SelectSeq(records, LAMBDA rec : lo <= rec.len /\ rec.len <= hi)

\* the dict with the identifier and the description exchanged
SummaryRow_swapped(rec) == [Accession |-> rec.desc, Length |-> rec.len, Description |-> rec.id]

\* the dict generate_csv builds for one record
SummaryRow(rec) == [Accession |-> rec.id, Length |-> rec.len, Description |-> rec.desc]

\* pd.DataFrame(data): the columns are the keys of the dicts; no dicts, no columns
DataFrame(data) ==
  IF data = <<>> THEN EmptyFrame
  ELSE [columns |-> <<"Accession", "Length", "Description">>, rows |-> data]

\* df.to_csv(filename, index=False): the header line, then one line per row
CsvLine(row) == <<row.Accession, ToString(row.Length), row.Description>>
to_csv(frame) ==
  <<frame.columns>> \o [i \in 1..Len(frame.rows) |-> CsvLine(frame.rows[i])]

\* opening the file for appending
WriteFile_append(files, filename, data) ==
  [files EXCEPT ![filename] = [exists |-> TRUE, data |-> files[filename].data \o data]]

\* opening a file for writing replaces what it held
WriteFile(files, filename, data) ==
  [files EXCEPT ![filename] = [exists |-> TRUE, data |-> data]]

\* generate_csv; the caller keeps the frame in df
generate_csv(records, filename) ==
  LET data == [i \in 1..Len(records) |-> SummaryRow(records[i])]
      frame == DataFrame(data)
  IN /\ fs' = WriteFile(fs, filename, to_csv(frame))
     /\ written' = written \cup {filename}
     /\ df' = frame

\* df.sort_values(by="Length", ascending=False) with the default kind
\* ("quicksort"): any arrangement of the rows with the lengths non-increasing
Injective(p) == \A i, j \in DOMAIN p : p[i] = p[j] => i = j
Arrangements(rows) ==
  { [i \in 1..Len(rows) |-> rows[p[i]]] :
      p \in { q \in [1..Len(rows) -> 1..Len(rows)] : Injective(q) } }
Descending(rows) == \A i \in 1..(Len(rows) - 1) : rows[i].Length >= rows[i + 1].Length
Ascending(rows) == \A i \in 1..(Len(rows) - 1) : rows[i].Length <= rows[i + 1].Length
\* sort_values without ascending=False
sort_values_ascending(frame) == { s \in Arrangements(frame.rows) : Ascending(s) }
sort_values(frame) == { s \in Arrangements(frame.rows) : Descending(s) }

\* sort_values raises KeyError when the frame has no Length column
HasLength(frame) == \E c \in 1..Len(frame.columns) : frame.columns[c] = "Length"

\* plt.plot(df_sorted["Accession"], df_sorted["Length"], marker='o')
Points(rows) == [i \in 1..Len(rows) |-> [x |-> rows[i].Accession, y |-> rows[i].Length]]

\* plot_lengths, the sort having produced sorted
plot_lengths(frame, sorted, filename) ==
  /\ fs' = WriteFile(fs, filename, Points(sorted))
  /\ written' = written \cup {filename}

(* ------------------------------ main() -------------------------------- *)
\* max_records=1000 whatever the count
RequestedMax_cap(count) == MaxRecords

\* line 77: max_records=min(1000, total)
RequestedMax(count) == Min(MaxRecords, count)

\* a method of the retriever is entered
Invoke(method, file) ==
  /\ ncalls' = ncalls + 1
  /\ last_call' = [method |-> method, file |-> file]
  /\ prev_call' = last_call

\* the exception is caught and the pipeline carries on with the export
Raise_swallowed(stage, kind) ==
  /\ pc' = "export"
  /\ error' = [stage |-> stage, kind |-> kind]

\* an exception no one catches ends main
Raise(stage, kind) ==
  /\ pc' = "error"
  /\ error' = [stage |-> stage, kind |-> kind]

StaleFiles ==
  [f \in Files |->
     IF f = CsvDefault THEN [exists |-> TRUE, data |-> << <<"Accession", "Length", "Description">>, <<"OLD", "1", "old">> >>]
     ELSE IF f = PngDefault THEN [exists |-> TRUE, data |-> << [x |-> "OLD", y |-> 1] >>]
     ELSE NoFile]

InitCommon ==
  /\ min_len = 0 /\ max_len = 0 /\ total = 0
  /\ all_records = <<>> /\ filtered = <<>> /\ df = EmptyFrame
  /\ fs \in { [f \in Files |-> NoFile], StaleFiles }
  /\ history = <<>>
  /\ last_efetch = NoRequest
  /\ ncalls = 0 /\ last_call = NoCall /\ prev_call = NoCall /\ written = {}
  /\ error = NoError

Init ==
  /\ pc = "input"
  /\ stdin \in [taxid : Taxids, min_len : NumInputs, max_len : NumInputs]
  /\ entrez = [email |-> None, api_key |-> None]
  /\ webenv = None /\ query_key = None
  /\ InitCommon

\* lines 67-71: the prompts; int() of the two lengths
MainInput ==
  /\ pc = "input"
  /\ IsInt(stdin.min_len) /\ IsInt(stdin.max_len)
  /\ min_len' = ParseInt(stdin.min_len)
  /\ max_len' = ParseInt(stdin.max_len)
  /\ pc' = "construct"
  /\ UNCHANGED << stdin, entrez, webenv, query_key, total, all_records, filtered,
                  df, fs, history, last_efetch, ncalls, last_call, prev_call, written, error >>

MainInputFail ==
  /\ pc = "input"
  /\ ~(IsInt(stdin.min_len) /\ IsInt(stdin.max_len))
  /\ min_len' = IF IsInt(stdin.min_len) THEN ParseInt(stdin.min_len) ELSE min_len
  /\ Raise("input", "ValueError")
  /\ UNCHANGED << stdin, entrez, webenv, query_key, max_len, total, all_records,
                  filtered, df, fs, history, last_efetch, ncalls, last_call, prev_call, written >>

\* line 73
MainConstruct ==
  /\ pc = "construct"
  /\ Construct(Email, ApiKey)
  /\ pc' = "search"
  /\ UNCHANGED << stdin, min_len, max_len, total, all_records, filtered, df, fs,
                  history, last_efetch, ncalls, last_call, prev_call, written, error >>

\* line 74
MainSearch ==
  /\ pc = "search"
  /\ \E rs \in ResultSets : search_taxid(stdin.taxid, rs)
  /\ Invoke("search", None)
  /\ pc' = "fetch"
  /\ UNCHANGED << stdin, entrez, min_len, max_len, all_records, filtered, df, fs,
                  last_efetch, written, error >>

MainSearchFail ==
  /\ pc = "search"
  /\ Invoke("search", None)
  /\ Raise("search", "URLError")
  /\ UNCHANGED << stdin, entrez, webenv, query_key, min_len, max_len, total,
                  all_records, filtered, df, fs, history, last_efetch, written >>

\* line 77
MainFetch ==
  /\ pc = "fetch"
  /\ FetchAccepted(FetchRequest(RequestedMax(total)))
  /\ fetch_records(RequestedMax(total))
  /\ Invoke("fetch", None)
  /\ pc' = "filter"
  /\ UNCHANGED << stdin, entrez, webenv, query_key, min_len, max_len, total,
                  filtered, df, fs, history, written, error >>

MainFetchFail ==
  /\ pc = "fetch"
  /\ last_efetch' = FetchRequest(RequestedMax(total))
  /\ Invoke("fetch", None)
  /\ Raise("fetch", "HTTPError")
  /\ UNCHANGED << stdin, entrez, webenv, query_key, min_len, max_len, total,
                  all_records, filtered, df, fs, history, written >>

\* main with the chart drawn right after the filter
MainFilter_to_chart ==
  /\ pc = "filter"
  /\ filtered' = filter_records(all_records, min_len, max_len)
  /\ Invoke("filter", None)
  /\ pc' = "chart"
  /\ UNCHANGED << stdin, entrez, webenv, query_key, min_len, max_len, total,
                  all_records, df, fs, history, last_efetch, written, error >>

\* lines 78-79
MainFilter ==
  /\ pc = "filter"
  /\ filtered' = filter_records(all_records, min_len, max_len)
  /\ Invoke("filter", None)
  /\ pc' = "export"
  /\ UNCHANGED << stdin, entrez, webenv, query_key, min_len, max_len, total,
                  all_records, df, fs, history, last_efetch, written, error >>

\* line 81
MainExport ==
  /\ pc = "export"
  /\ generate_csv(filtered, CsvDefault)
  /\ Invoke("export", CsvDefault)
  /\ pc' = "chart"
  /\ UNCHANGED << stdin, entrez, webenv, query_key, min_len, max_len, total,
                  all_records, filtered, history, last_efetch, error >>

\* to_csv cannot open the file
MainExportFail ==
  /\ pc = "export"
  /\ Invoke("export", CsvDefault)
  /\ Raise("export", "OSError")
  /\ UNCHANGED << stdin, entrez, webenv, query_key, min_len, max_len, total,
                  all_records, filtered, df, fs, history, last_efetch, written >>

\* line 82
MainChart ==
  /\ pc = "chart"
  /\ HasLength(df)
  /\ \E sorted \in sort_values(df) : plot_lengths(df, sorted, PngDefault)
  /\ Invoke("chart", PngDefault)
  /\ pc' = "done"
  /\ UNCHANGED << stdin, entrez, webenv, query_key, min_len, max_len, total,
                  all_records, filtered, df, history, last_efetch, error >>

\* sort_values(by="Length") on a frame without that column
MainChartKeyError ==
  /\ pc = "chart"
  /\ ~HasLength(df)
  /\ Invoke("chart", PngDefault)
  /\ Raise("chart", "KeyError")
  /\ UNCHANGED << stdin, entrez, webenv, query_key, min_len, max_len, total,
                  all_records, filtered, df, fs, history, last_efetch, written >>

\* savefig cannot open the file
MainChartFail ==
  /\ pc = "chart"
  /\ HasLength(df)
  /\ Invoke("chart", PngDefault)
  /\ Raise("chart", "OSError")
  /\ UNCHANGED << stdin, entrez, webenv, query_key, min_len, max_len, total,
                  all_records, filtered, df, fs, history, last_efetch, written >>

Next ==
  \/ MainInput \/ MainInputFail
  \/ MainConstruct
  \/ MainSearch \/ MainSearchFail
  \/ MainFetch \/ MainFetchFail
  \/ MainFilter
  \/ MainExport \/ MainExportFail
  \/ MainChart \/ MainChartKeyError \/ MainChartFail

Spec == Init /\ [][Next]_vars

\* main runs on one thread: a statement that can run does run
FairSpec == Spec /\ WF_vars(Next)

(* ----------------------- a caller of the class ------------------------ *)
\* the bounds a caller passes to filter_records
ApiBounds == { <<200, 600>>, <<250, 250>>, <<600, 200>> }

\* retriever = NCBIRetriever(email, api_key) has run
ApiInit ==
  /\ pc = "api"
  /\ stdin = [taxid |-> "9606", min_len |-> <<"0">>, max_len |-> <<"0">>]
  /\ entrez = [email |-> Email, api_key |-> ApiKey]
  /\ webenv = None /\ query_key = None
  /\ InitCommon
  /\ fs = [f \in Files |-> NoFile]

Called(method, file) ==
  /\ pc = "api"
  /\ ncalls < MaxCalls
  /\ Invoke(method, file)
  /\ pc' = pc

ApiSearch ==
  /\ Called("search", None)
  /\ Len(history) < MaxSearches
  /\ \E rs \in ApiResultSets : search_taxid(stdin.taxid, rs)
  /\ error' = NoError
  /\ UNCHANGED << stdin, entrez, min_len, max_len, all_records, filtered, df, fs,
                  last_efetch, written >>

ApiSearchFail ==
  /\ Called("search", None)
  /\ error' = [stage |-> "search", kind |-> "URLError"]
  /\ UNCHANGED << stdin, entrez, webenv, query_key, min_len, max_len, total,
                  all_records, filtered, df, fs, history, last_efetch, written >>

\* fetch_records() with the default max_records, or fetch_records(1)
ApiFetch ==
  /\ Called("fetch", None)
  /\ \E m \in {MaxRecords, 1} :
       /\ FetchAccepted(FetchRequest(m))
       /\ fetch_records(m)
  /\ error' = NoError
  /\ UNCHANGED << stdin, entrez, webenv, query_key, min_len, max_len, total,
                  filtered, df, fs, history, written >>

\* the provider rejects the request (no search has stored tokens), or is unreachable
ApiFetchFail ==
  /\ Called("fetch", None)
  /\ last_efetch' = FetchRequest(MaxRecords)
  /\ error' = [stage |-> "fetch", kind |-> "HTTPError"]
  /\ UNCHANGED << stdin, entrez, webenv, query_key, min_len, max_len, total,
                  all_records, filtered, df, fs, history, written >>

ApiFilter ==
  /\ Called("filter", None)
  /\ \E b \in ApiBounds :
       /\ min_len' = b[1]
       /\ max_len' = b[2]
       /\ filtered' = filter_records(all_records, b[1], b[2])
  /\ error' = NoError
  /\ UNCHANGED << stdin, entrez, webenv, query_key, total, all_records, df, fs,
                  history, last_efetch, written >>

ApiExport ==
  /\ \E filename \in {CsvDefault, CsvOther} :
       /\ Called("export", filename)
       /\ generate_csv(filtered, filename)
  /\ error' = NoError
  /\ UNCHANGED << stdin, entrez, webenv, query_key, min_len, max_len, total,
                  all_records, filtered, history, last_efetch >>

ApiChart ==
  /\ Called("chart", PngDefault)
  /\ HasLength(df)
  /\ \E sorted \in sort_values(df) : plot_lengths(df, sorted, PngDefault)
  /\ error' = NoError
  /\ UNCHANGED << stdin, entrez, webenv, query_key, min_len, max_len, total,
                  all_records, filtered, df, history, last_efetch >>

ApiChartKeyError ==
  /\ Called("chart", PngDefault)
  /\ ~HasLength(df)
  /\ error' = [stage |-> "chart", kind |-> "KeyError"]
  /\ UNCHANGED << stdin, entrez, webenv, query_key, min_len, max_len, total,
                  all_records, filtered, df, fs, history, last_efetch, written >>

ApiNext ==
  \/ ApiSearch \/ ApiSearchFail
  \/ ApiFetch \/ ApiFetchFail
  \/ ApiFilter
  \/ ApiExport
  \/ ApiChart \/ ApiChartKeyError

ApiSpec == ApiInit /\ [][ApiNext]_vars

(* ============================ properties ============================== *)
StageOrder == <<"search", "fetch", "filter", "export", "chart">>
Header == <<"Accession", "Length", "Description">>
Terminal == {"done", "error"}

\* C1: with min_len <= max_len, once the filter stage of main has run, filtered
\* holds exactly the fetched records whose length lies in [min_len, max_len]
\* (both ends included), in fetch order and as often as they were fetched; it
\* is empty exactly when no fetched record lies in the bounds.
C1_FilterExact ==
  LET Kept == { i \in 1..Len(all_records) :
                  min_len <= all_records[i].len /\ all_records[i].len <= max_len }
      NthKept(k) == CHOOSE i \in Kept : Cardinality({ j \in Kept : j <= i }) = k
  IN (ncalls >= 3 /\ min_len <= max_len) =>
       /\ Len(filtered) = Cardinality(Kept)
       /\ \A k \in 1..Len(filtered) : filtered[k] = all_records[NthKept(k)]
       /\ (filtered = <<>>) <=> (Kept = {})

\* lengths [100, 250, 500, 750] with bounds [200, 600] gave [250, 500]
C1_Witness ==
  /\ ncalls >= 3
  /\ all_records = Scenario
  /\ min_len = 200 /\ max_len = 600
  /\ filtered = << Scenario[2], Scenario[3] >>

\* C2: once generate_csv has returned, the frame it returned and the data lines
\* of the file both have one row per filtered record, the i-th being the
\* (identifier, sequence length, description) of the i-th filtered record; this
\* includes the empty filtered set.
C2_RowCount ==
  (ncalls >= 4 /\ error.stage # "export") =>
    LET lines == fs[CsvDefault].data IN
    /\ fs[CsvDefault].exists
    /\ Len(df.rows) = Len(filtered)
    /\ Len(lines) = Len(filtered) + 1
    /\ \A i \in 1..Len(filtered) :
         /\ df.rows[i].Accession = filtered[i].id
         /\ df.rows[i].Length = filtered[i].len
         /\ df.rows[i].Description = filtered[i].desc
         /\ lines[i + 1] = << filtered[i].id, ToString(filtered[i].len), filtered[i].desc >>

C2_Witness ==
  /\ ncalls >= 4 /\ error.stage # "export"
  /\ Len(filtered) = 2
  /\ filtered[1] # filtered[2]
  /\ Len(all_records) = 3

\* C3: main asks the fetch stage for min(1000, total) records in one request
\* at offset 0, issued by the second call (fetch) and by no other; the fetched
\* list is never longer than what was asked for, and holds exactly total
\* records when total does not exceed 1000.
C3_FetchBounded ==
  /\ [] ( last_efetch # NoRequest =>
            /\ last_efetch.retstart = 0
            /\ last_efetch.retmax = (IF total < MaxRecords THEN total ELSE MaxRecords)
            /\ last_efetch.retmax <= total )
  /\ [] ( (ncalls >= 2 /\ error.stage # "fetch") =>
            /\ last_efetch # NoRequest
            /\ Len(all_records) <= last_efetch.retmax
            /\ (total <= MaxRecords => Len(all_records) = total)
            /\ (total > MaxRecords => Len(all_records) = MaxRecords) )
  /\ [][ last_efetch' # last_efetch =>
           (ncalls = 1 /\ ncalls' = 2 /\ last_call'.method = "fetch") ]_vars

\* 42 records available, 42 fetched
C3_Witness ==
  /\ ncalls >= 2 /\ error.stage # "fetch"
  /\ total = SmallTotal
  /\ SmallTotal < MaxRecords
  /\ last_efetch.retmax = SmallTotal
  /\ Len(all_records) = SmallTotal

\* C4: when the fetch stage returned no record and the file system accepts the
\* writes, main ends in "done" with an empty filtered set, a file holding the
\* header Accession,Length,Description only and a chart without data points.
C4_EmptyFetchCompletes ==
  ( /\ pc \in Terminal
    /\ ncalls >= 2 /\ error.stage # "fetch"
    /\ all_records = <<>>
    /\ error.kind # "OSError" ) =>
      /\ pc = "done"
      /\ error = NoError
      /\ filtered = <<>>
      /\ fs[CsvDefault] = [exists |-> TRUE, data |-> <<Header>>]
      /\ fs[PngDefault] = [exists |-> TRUE, data |-> <<>>]

\* C5: an exception ends main: the pipeline is in "error", the failing stage
\* is the last one invoked, nothing runs afterwards; after a failure in the
\* prompts, in search or in fetch no file has been written, and after a
\* failure in export no chart has been written.
C5_FailStop ==
  /\ [] ( error # NoError =>
            /\ pc = "error"
            /\ (error.stage = "input" => ncalls = 0)
            /\ (error.stage # "input" =>
                  /\ ncalls \in 1..5
                  /\ StageOrder[ncalls] = error.stage
                  /\ last_call.method = error.stage)
            /\ (error.stage \in {"input", "search", "fetch"} => written = {})
            /\ (error.stage \in {"export", "chart"} => PngDefault \notin written) )
  /\ [][ pc # "error" /\ error = NoError ]_vars

\* fetch failed after search had succeeded
C5_Witness ==
  /\ pc = "error"
  /\ error.stage = "fetch"
  /\ history # <<>>
  /\ webenv # None
  /\ written = {}

\* C6: a second generate_csv right after a first, on the same filtered set and
\* with the same file name, leaves every file as the first left it and returns
\* an equal frame.
C6_ExportIdempotent ==
  [][ ( /\ ncalls' = ncalls + 1
        /\ last_call.method = "export"
        /\ last_call' = last_call ) =>
      ( fs' = fs /\ df' = df ) ]_vars

\* two exports in a row of a non-empty filtered set to the same file
C6_Witness ==
  /\ last_call.method = "export"
  /\ prev_call = last_call
  /\ filtered # <<>>
  /\ Len(fs[last_call.file].data) = Len(filtered) + 1

\* C7: the k-th method main invokes is the k-th of search, fetch, filter,
\* export, chart, and it is invoked only when nothing has failed; the tabular
\* file is written only once the filter has run, the chart only once the
\* tabular file is written; every run ends, and one that ends without an error
\* has written both files.
C7_LinearPipeline ==
  /\ [][ ncalls' # ncalls =>
           /\ ncalls' = ncalls + 1
           /\ ncalls' <= Len(StageOrder)
           /\ last_call'.method = StageOrder[ncalls']
           /\ error = NoError ]_vars
  /\ [] ( CsvDefault \in written => ncalls >= 4 )
  /\ [] ( PngDefault \in written => (CsvDefault \in written /\ ncalls = 5) )
  /\ [] ( pc = "done" =>
            /\ error = NoError
            /\ ncalls = 5
            /\ written = {CsvDefault, PngDefault}
            /\ fs[CsvDefault].exists /\ fs[PngDefault].exists )
  /\ <> ( pc \in Terminal )

C7_Witness ==
  /\ pc = "done"
  /\ written = {CsvDefault, PngDefault}
  /\ filtered # <<>>
  /\ Len(fs[PngDefault].data) = Len(filtered)

\* C8: with min_len > max_len the filter stage raises nothing and returns the
\* empty list, main goes on to the export stage with it and, the file written,
\* to the chart stage.
C8_InvertedBounds ==
  /\ [] ( error.stage # "filter" )
  /\ [] ( (ncalls >= 3 /\ min_len > max_len) => filtered = <<>> )
  /\ [][ (pc = "filter" /\ min_len > max_len) =>
           (pc' = "export" /\ filtered' = <<>>) ]_vars
  /\ [][ (pc = "export" /\ min_len > max_len /\ error' = NoError) =>
           (pc' = "chart" /\ df' = DataFrame(<<>>) /\ CsvDefault \in written') ]_vars
  /\ [] ( (pc = "chart" /\ min_len > max_len) => ENABLED (MainChart \/ MainChartKeyError) )

\* records were fetched, the bounds are inverted, the chart stage was entered
C8_Witness ==
  /\ min_len > max_len
  /\ all_records # <<>>
  /\ filtered = <<>>
  /\ last_call.method = "chart"
  /\ prev_call.method = "export"

\* the rows plotted, as (Accession, Length) points
Plotted == fs[PngDefault].data

\* C9 as stated: the points plotted are the rows of df in non-increasing order
\* of length, rows of equal length in the order df has them.
C9_StableOrder ==
  pc = "done" =>
    \E p \in { q \in [1..Len(df.rows) -> 1..Len(df.rows)] : Injective(q) } :
      /\ Len(Plotted) = Len(df.rows)
      /\ \A i \in 1..Len(df.rows) : Plotted[i] = Points(df.rows)[p[i]]
      /\ \A i, j \in 1..Len(df.rows) :
           i < j => \/ df.rows[p[i]].Length > df.rows[p[j]].Length
                    \/ (df.rows[p[i]].Length = df.rows[p[j]].Length /\ p[i] < p[j])

\* C9 amended: whenever plot_lengths completes, the points plotted are a
\* permutation of the rows of df in non-increasing order of length (the order
\* among rows of equal length is not fixed), and the chart step leaves df as
\* it was.
C9_SortedPermutation ==
  /\ [] ( pc = "done" =>
            /\ Len(Plotted) = Len(df.rows)
            /\ \E p \in { q \in [1..Len(df.rows) -> 1..Len(df.rows)] : Injective(q) } :
                 \A i \in 1..Len(df.rows) : Plotted[i] = Points(df.rows)[p[i]]
            /\ \A i \in 1..(Len(Plotted) - 1) : Plotted[i].y >= Plotted[i + 1].y )
  /\ [][ pc = "chart" => df' = df ]_vars

\* rows of different lengths, out of order in df, were plotted
C9_Witness ==
  /\ pc = "done"
  /\ Len(df.rows) = 3
  /\ df.rows[1].Length < df.rows[2].Length
  /\ df.rows[2].Length = df.rows[3].Length
  /\ df.rows[2] # df.rows[3]

\* the tokens of the most recent successful search, from the provider's side
LatestTokens ==
  IF history = <<>> THEN <<None, None>>
  ELSE << history[Len(history)].WebEnv, history[Len(history)].QueryKey >>

\* C10: the tokens are None until a search has succeeded; only a successful
\* search_taxid changes them; every fetch_records sends the tokens the most
\* recent successful search returned; no method changes the credentials.
C10_TokensFrame ==
  /\ [] ( history = <<>> => (webenv = None /\ query_key = None) )
  /\ [][ (webenv' # webenv \/ query_key' # query_key) =>
           /\ ncalls' = ncalls + 1
           /\ last_call'.method = "search"
           /\ error' = NoError
           /\ Len(history') = Len(history) + 1 ]_vars
  /\ [][ (last_efetch' # last_efetch \/ (ncalls' # ncalls /\ last_call'.method = "fetch")) =>
           /\ last_call'.method = "fetch"
           /\ << last_efetch'.webenv, last_efetch'.query_key >> = LatestTokens ]_vars
  /\ [][ last_call'.method \in {"fetch", "filter", "export", "chart"} =>
           (webenv' = webenv /\ query_key' = query_key) ]_vars
  /\ [][ entrez' = entrez ]_vars

\* a fetch after a second search sent the second search's tokens
C10_Witness ==
  /\ Len(history) = 2
  /\ history[1].WebEnv # history[2].WebEnv
  /\ last_call.method = "fetch"
  /\ error = NoError
  /\ last_efetch.webenv = history[2].WebEnv
  /\ last_efetch.query_key = history[2].QueryKey
  /\ all_records # <<>>

====
